---------------------------- MODULE Spec2Model ----------------------------
(***************************************************************************)
(* UPC-A validation core (src/upc_core.py, class UPCValidator).            *)
(*                                                                         *)
(* A string is a sequence of one-character tokens.  The ASCII characters   *)
(* are written as themselves; two non-ASCII characters are written by a    *)
(* two-letter token:                                                       *)
(*   "A3"  U+0663 ARABIC-INDIC DIGIT THREE: str.isdigit() is true and      *)
(*         int() gives 3;                                                  *)
(*   "S2"  U+00B2 SUPERSCRIPT TWO: str.isdigit() is true and int()         *)
(*         raises ValueError.                                              *)
(***************************************************************************)
EXTENDS Integers, Sequences, FiniteSets, TLC

VARIABLES raw, self, op, ret, trials, log

\* two threads calling methods statement by statement: the instances, the
\* instance and the method of each thread, its place in the code, its local
\* variables and what its call returned
VARIABLES objs, target, meth, pc, loc, result

callVars == <<raw, self, op, ret, trials, log>>

threadVars == <<objs, target, meth, pc, loc, result>>

\* the run of test_product_type_detection: its two loop variables, what it has
\* printed, and its position
VARIABLES test_first_digit, eleventh, printed, tpc

testVars == <<test_first_digit, eleventh, printed, tpc>>

\* a BarcodeScanner: its running flag and self.cap, the capture objects made
\* so far, the position of every scan thread and of the caller of stop(),
\* what start() last returned, what each thread passed to the callback, and
\* whether OpenCV and pyzbar were imported
VARIABLES running, cap, captures, scan_pc, ui_pc, started, callbacks, available

scanVars == <<running, cap, captures, scan_pc, ui_pc, started, callbacks, available>>

vars == <<callVars, threadVars, testVars, scanVars>>

-----------------------------------------------------------------------------
(* Characters and the str methods the code calls on them.                  *)

AsciiDigits == {"0", "1", "2", "3", "4", "5", "6", "7", "8", "9"}

Placeholders == {"?", "_"}

Specials == {"?", "_", "A3", "S2", "X", " "}

Alphabet == AsciiDigits \cup Specials

\* str(digit) for digit in range(10)
DigitChar(n) ==
  CASE n = 0 -> "0" [] n = 1 -> "1" [] n = 2 -> "2" [] n = 3 -> "3" [] n = 4 -> "4"
    [] n = 5 -> "5" [] n = 6 -> "6" [] n = 7 -> "7" [] n = 8 -> "8" [] n = 9 -> "9"

\* str.isspace() of one character
IsSpaceChar(c) == c = " "

\* str.isdigit() of one character: every character with the Unicode property
\* Numeric_Type=Digit or Decimal, not only '0'..'9'
IsDigitChar(c) == c \in AsciiDigits \cup {"A3", "S2"}

\* int(c) accepts the Unicode decimal digits (category Nd) only
HasIntValue(c) == c \in AsciiDigits \cup {"A3"}

\* int(c) where it is defined
IntOf(c) ==
  CASE c = "0" -> 0 [] c = "1" -> 1 [] c = "2" -> 2 [] c = "3" -> 3 [] c = "4" -> 4
    [] c = "5" -> 5 [] c = "6" -> 6 [] c = "7" -> 7 [] c = "8" -> 8 [] c = "9" -> 9
    [] c = "A3" -> 3

\* s.isdigit(): true when s is non-empty and every character is a digit
StrIsDigit(s) == Len(s) > 0 /\ \A i \in 1..Len(s) : IsDigitChar(s[i])

RECURSIVE LStrip(_)
LStrip(s) == IF s /= <<>> /\ IsSpaceChar(Head(s)) THEN LStrip(Tail(s)) ELSE s

RECURSIVE RStrip(_)
RStrip(s) ==
  IF s /= <<>> /\ IsSpaceChar(s[Len(s)]) THEN RStrip(SubSeq(s, 1, Len(s) - 1)) ELSE s

\* s.strip()
\* mutant of Strip: only leading whitespace is removed
Strip_LeftOnly(s) == LStrip(s)

Strip(s) == RStrip(LStrip(s))

\* s.count(c)
Count(s, c) == Cardinality({i \in 1..Len(s) : s[i] = c})

\* the Python slice s[a:b] for 0 <= a <= b (0-indexed, b exclusive, clipped)
Slice(s, a, b) == SubSeq(s, a + 1, IF b < Len(s) THEN b ELSE Len(s))

-----------------------------------------------------------------------------
(* Return values and error messages.                                       *)

RetNone == [tag |-> "None", b |-> FALSE, s |-> <<>>]
RetBool(v) == [tag |-> "bool", b |-> v, s |-> <<>>]
RetStr(v) == [tag |-> "str", b |-> FALSE, s |-> v]
\* the call did not return: int() raised ValueError
RetRaise == [tag |-> "ValueError", b |-> FALSE, s |-> <<>>]

NoError == [reason |-> "", value |-> 0]
\* mutant of LengthError: the expected length is reported, not the actual one
LengthError_Expected(n) == [reason |-> "UPC must be exactly 12 digits", value |-> 12]
\* f"UPC must be exactly 12 digits (got {len(self.upc_code)})"
LengthError(n) == [reason |-> "UPC must be exactly 12 digits", value |-> n]
\* "UPC must contain only digits"
CharError == [reason |-> "UPC must contain only digits", value |-> 0]
\* f"Invalid check digit (sum = {total}, should be divisible by 10)"
ChecksumError(total) == [reason |-> "Invalid check digit", value |-> total]

-----------------------------------------------------------------------------
(* class UPCValidator                                                      *)

UPC_LEN == 12

PRODUCT_TYPES ==
  [c \in AsciiDigits |->
     CASE c = "0" -> "General groceries"
       [] c = "1" -> "Reserved for future use"
       [] c = "2" -> "Meat and produce (variable weight)"
       [] c = "3" -> "Drugs & health products"
       [] c = "4" -> "Non-food items (in-store)"
       [] c = "5" -> "Coupons"
       [] c = "6" -> "Other items"
       [] c = "7" -> "Other items"
       [] c = "8" -> "Reserved for future use"
       [] c = "9" -> "Reserved for future use"]

\* __init__
UPCValidator(upc_code) ==
  [upc_code |-> Strip(upc_code),
   is_valid |-> FALSE,
   error_message |-> NoError,
   product_type |-> "",
   manufacturer_code |-> <<>>,
   product_code |-> <<>>,
   check_digit |-> <<>>]

\* mutant of Weight: the weights of the even and the odd positions exchanged
Weight_Swapped(i) == IF i % 2 = 0 THEN 1 ELSE 3

\* mutant of Weight: every position has weight 1
Weight_Uniform(i) == 1

\* the weight of the digit at 0-indexed position i
Weight(i) == IF i % 2 = 0 THEN 3 ELSE 1

\* total after the loop of validate has run over the first n characters
RECURSIVE Total(_, _)
Total(code, n) ==
  IF n = 0 THEN 0 ELSE Total(code, n - 1) + IntOf(code[n]) * Weight(n - 1)

\* mutant of Decode: the slices are appended to the fields, not assigned
Decode_Appends(inst) ==
  IF Len(inst.upc_code) = UPC_LEN
    THEN LET first_digit == inst.upc_code[1]
         IN [inst EXCEPT
               !.product_type = IF first_digit \in DOMAIN PRODUCT_TYPES
                                  THEN PRODUCT_TYPES[first_digit] ELSE "Unknown",
               !.manufacturer_code = @ \o Slice(inst.upc_code, 1, 6),
               !.product_code = @ \o Slice(inst.upc_code, 6, 11),
               !.check_digit = @ \o Slice(inst.upc_code, 11, 12)]
    ELSE inst

\* mutant of Decode: the check digit is not stored
Decode_NoCheckDigit(inst) ==
  IF Len(inst.upc_code) = UPC_LEN
    THEN LET first_digit == inst.upc_code[1]
         IN [inst EXCEPT
               !.product_type = IF first_digit \in DOMAIN PRODUCT_TYPES
                                  THEN PRODUCT_TYPES[first_digit] ELSE "Unknown",
               !.manufacturer_code = Slice(inst.upc_code, 1, 6),
               !.product_code = Slice(inst.upc_code, 6, 11)]
    ELSE inst

\* mutant of Decode: decoding also marks the instance valid
Decode_SetsValid(inst) ==
  IF Len(inst.upc_code) = UPC_LEN
    THEN [Decode_Appends([inst EXCEPT !.manufacturer_code = <<>>,
                                      !.product_code = <<>>,
                                      !.check_digit = <<>>])
            EXCEPT !.is_valid = TRUE]
    ELSE inst

\* decode(): the instance after the call
Decode(inst) ==
  IF Len(inst.upc_code) = UPC_LEN
    THEN LET first_digit == inst.upc_code[1]
         IN [inst EXCEPT
               !.product_type = IF first_digit \in DOMAIN PRODUCT_TYPES
                                  THEN PRODUCT_TYPES[first_digit] ELSE "Unknown",
               !.manufacturer_code = Slice(inst.upc_code, 1, 6),
               !.product_code = Slice(inst.upc_code, 6, 11),
               !.check_digit = Slice(inst.upc_code, 11, 12)]
    ELSE inst

\* mutant of WrongLength: only a code that is too short is rejected
WrongLength_ShortOnly(code) == Len(code) < UPC_LEN

\* the length check of validate: len(self.upc_code) != 12
WrongLength(code) == Len(code) /= UPC_LEN

\* validate(): the instance after the call and what the call returned
Validate(inst) ==
  LET code == inst.upc_code IN
  IF WrongLength(code)
    THEN [inst |-> [inst EXCEPT !.error_message = LengthError(Len(code))],
          ret |-> RetBool(FALSE)]
  ELSE IF ~StrIsDigit(code)
    THEN [inst |-> [inst EXCEPT !.error_message = CharError], ret |-> RetBool(FALSE)]
  ELSE IF \E i \in 1..Len(code) : ~HasIntValue(code[i])
    THEN [inst |-> inst, ret |-> RetRaise]
  ELSE IF Total(code, Len(code)) % 10 /= 0
    THEN [inst |-> [inst EXCEPT !.error_message = ChecksumError(Total(code, Len(code)))],
          ret |-> RetBool(FALSE)]
  ELSE [inst |-> Decode([inst EXCEPT !.is_valid = TRUE]), ret |-> RetBool(TRUE)]

\* the 0-indexed position of the first placeholder, -1 when there is none
MissingPos(code) ==
  IF \E i \in 1..Len(code) : code[i] \in Placeholders
    THEN (CHOOSE i \in 1..Len(code) :
            /\ code[i] \in Placeholders
            /\ \A j \in 1..(i - 1) : code[j] \notin Placeholders) - 1
    ELSE -1

\* mutant of TestUpc: the digit is inserted before the placeholder, which stays
TestUpc_KeepsHole(code, missing_pos, digit) ==
  Slice(code, 0, missing_pos) \o <<DigitChar(digit)>>
    \o Slice(code, missing_pos, Len(code))

\* self.upc_code[:missing_pos] + str(digit) + self.upc_code[missing_pos+1:]
TestUpc(code, missing_pos, digit) ==
  Slice(code, 0, missing_pos) \o <<DigitChar(digit)>>
    \o Slice(code, missing_pos + 1, Len(code))

\* the loop "for digit in range(10)" from candidate digit on: what
\* solve_missing_digit returns and how many validators it has run by then
RECURSIVE TryDigits(_, _, _)
TryDigits(code, missing_pos, digit) ==
  IF digit >= 10 THEN [ret |-> RetNone, trials |-> digit]
  ELSE LET test_upc == TestUpc(code, missing_pos, digit)
           r == Validate(UPCValidator(test_upc)).ret
       IN IF r = RetRaise THEN [ret |-> RetRaise, trials |-> digit + 1]
          ELSE IF r.b THEN [ret |-> RetStr(test_upc), trials |-> digit + 1]
          ELSE TryDigits(code, missing_pos, digit + 1)

\* mutant of MissingCount: only '?' is counted
MissingCount_QuestionOnly(code) == Count(code, "?")

\* missing_count
MissingCount(code) == Count(code, "?") + Count(code, "_")

\* solve_missing_digit()
SolveMissingDigit(inst) ==
  LET code == inst.upc_code
      missing_count == MissingCount(code)
  IN IF missing_count /= 1 THEN [ret |-> RetNone, trials |-> 0]
     ELSE TryDigits(code, MissingPos(code), 0)

\* mutant of SelfAfterTrials: the trial runs on self instead of a new validator
SelfAfterTrials_OnSelf(inst) ==
  IF MissingCount(inst.upc_code) = 1
    THEN Validate([inst EXCEPT
                     !.upc_code = TestUpc(@, MissingPos(@), 0)]).inst
    ELSE inst

\* the instance after solve_missing_digit(): the method assigns no attribute
\* of self, each trial is validated on validator = UPCValidator(test_upc)
SelfAfterTrials(inst) == inst

-----------------------------------------------------------------------------
(* The inputs: the codes of the repository's tests, edited, resized and    *)
(* padded.                                                                 *)

NumBases == 3
MaxPad == 1
MaxDelta == 1

\* a string of ASCII digits from its digit values
Code(ds) == [i \in 1..Len(ds) |-> DigitChar(ds[i])]

BaseList ==
  << Code(<<0, 3, 6, 0, 0, 0, 2, 9, 1, 4, 5, 2>>),
     Code(<<1, 2, 3, 4, 5, 6, 7, 8, 9, 0, 1, 3>>),
     Code(<<0, 7, 8, 0, 0, 0, 0, 8, 2, 4, 8, 7>>),
     Code(<<0, 0, 0, 0, 0, 0, 0, 0, 0, 0, 0, 0>>),
     Code(<<0, 1, 2, 0, 0, 0, 1, 6, 1, 1, 5, 5>>),
     Code(<<0, 4, 1, 1, 9, 6, 4, 0, 3, 0, 9, 1>>) >>

Bases == {BaseList[k] : k \in 1..(IF NumBases < Len(BaseList) THEN NumBases ELSE Len(BaseList))}

Pos == 1..UPC_LEN

\* one character replaced by any character
OneEdit(b) == {[b EXCEPT ![p] = c] : p \in Pos, c \in Alphabet}

\* two characters replaced by placeholders
TwoHoles(b) ==
  {[b EXCEPT ![p] = c, ![q] = d] :
     p \in Pos, q \in Pos, c \in Placeholders, d \in Placeholders}

\* one character replaced by a placeholder and another by a non-digit
HoleAndSpecial(b) ==
  {[[b EXCEPT ![q] = c] EXCEPT ![p] = h] :
     p \in Pos, q \in Pos, h \in Placeholders, c \in Specials \ Placeholders}

\* one character replaced by a placeholder and the next one by a digit
HoleAndDigit(b) ==
  {[[b EXCEPT ![(p % UPC_LEN) + 1] = d] EXCEPT ![p] = h] :
     p \in Pos, h \in Placeholders, d \in AsciiDigits}

\* two neighbouring characters (one of each weight) replaced by digits
TwoDigits(b) ==
  {[b EXCEPT ![p] = c, ![p + 1] = d] :
     p \in 1..(UPC_LEN - 1), c \in AsciiDigits, d \in AsciiDigits}

Spaces(n) == [i \in 1..n |-> " "]

\* s cut or extended (by its own first characters) to n characters
Resize(s, n) == SubSeq(s \o s \o s, 1, n)

Lengths == {0} \cup {n \in 0..(UPC_LEN + MaxDelta) : n >= UPC_LEN - MaxDelta}

\* a code with at most one non-digit, resized and padded with whitespace
Shaped(b) ==
  {Spaces(l) \o Resize(s, n) \o Spaces(r) :
     s \in {[b EXCEPT ![p] = c] : p \in Pos, c \in Specials} \cup {b},
     n \in Lengths, l \in 0..MaxPad, r \in 0..MaxPad}

\* the codes of one repeated digit, "000000000000" among them
Repdigits == {[i \in Pos |-> c] : c \in AsciiDigits}

Inputs ==
  Repdigits \cup
  UNION {OneEdit(b) \cup TwoHoles(b) \cup HoleAndSpecial(b) \cup HoleAndDigit(b)
           \cup TwoDigits(b) \cup Shaped(b) : b \in Bases}

-----------------------------------------------------------------------------
(* One validator instance and the calls made on it.  raw is the argument   *)
(* of the constructor, self the instance, op the last method called, ret   *)
(* what it returned, trials the number of throwaway validators the last    *)
(* solve_missing_digit() ran.                                               *)

Threads == {1, 2}

\* the local variables of a call before it has assigned any
NoLocals ==
  [total |-> 0, i |-> 0, first_digit |-> "", missing_count |-> 0,
   missing_pos |-> -1, digit |-> 0, test_upc |-> <<>>]

\* no thread is running
NoThreads ==
  /\ objs = [k \in Threads |-> UPCValidator(<<>>)]
  /\ target = [t \in Threads |-> t]
  /\ meth = [t \in Threads |-> ""]
  /\ pc = [t \in Threads |-> "done"]
  /\ loc = [t \in Threads |-> NoLocals]
  /\ result = [t \in Threads |-> RetNone]

\* the instance just constructed from one of the inputs S
\* the number of scan threads one scanner may launch
MaxScans == 2

ScanThreads == 1..MaxScans

\* BarcodeScanner.__init__: not running, no capture; no thread launched yet
NewScanner ==
  /\ running = FALSE
  /\ cap = 0
  /\ captures = [k \in ScanThreads |-> "none"]
  /\ scan_pc = [k \in ScanThreads |-> "new"]
  /\ ui_pc = "idle"
  /\ started = RetNone
  /\ callbacks = [k \in ScanThreads |-> "none"]

\* a scanner nobody uses
NoScanner == NewScanner /\ available = FALSE

\* the test is not running
NoTest ==
  /\ test_first_digit = 0
  /\ eleventh = 0
  /\ printed = <<>>
  /\ tpc = "done"

Constructed(S) ==
  /\ raw \in S
  /\ self = UPCValidator(raw)
  /\ op = "__init__"
  /\ ret = RetNone
  /\ trials = 0
  /\ log = <<>>
  /\ NoThreads
  /\ NoTest
  /\ NoScanner

Init == Constructed(Inputs)

\* a call of validate() on the instance
DoValidate ==
  /\ LET r == Validate(self) IN self' = r.inst /\ ret' = r.ret
  /\ op' = "validate"
  /\ UNCHANGED <<raw, trials>>

\* a call of decode() on the instance
DoDecode ==
  /\ self' = Decode(self)
  /\ ret' = RetNone
  /\ op' = "decode"
  /\ UNCHANGED <<raw, trials>>

\* a call of solve_missing_digit() on the instance
DoSolveMissingDigit ==
  /\ LET r == SolveMissingDigit(self) IN ret' = r.ret /\ trials' = r.trials
  /\ op' = "solve_missing_digit"
  /\ self' = SelfAfterTrials(self)
  /\ UNCHANGED raw

validate == DoValidate /\ UNCHANGED <<log, threadVars, testVars, scanVars>>

decode == DoDecode /\ UNCHANGED <<log, threadVars, testVars, scanVars>>

solve_missing_digit == DoSolveMissingDigit /\ UNCHANGED <<log, threadVars, testVars, scanVars>>

Next == validate \/ decode \/ solve_missing_digit

Spec == Init /\ [][Next]_vars

-----------------------------------------------------------------------------
(* The same instance with the history of its calls: log holds, for each    *)
(* call made so far, the method, what it returned and the instance as the  *)
(* call left it.                                                           *)

MaxCalls == 3

CallInputs == Repdigits \cup UNION {OneEdit(b) : b \in Bases}

\* the entry of the call that leads to the next state
Logged == Append(log, [op |-> op', ret |-> ret', self |-> self'])

call_validate ==
  Len(log) < MaxCalls /\ DoValidate /\ log' = Logged /\ UNCHANGED <<threadVars, testVars, scanVars>>

call_decode ==
  Len(log) < MaxCalls /\ DoDecode /\ log' = Logged /\ UNCHANGED <<threadVars, testVars, scanVars>>

call_solve_missing_digit ==
  Len(log) < MaxCalls /\ DoSolveMissingDigit /\ log' = Logged /\ UNCHANGED <<threadVars, testVars, scanVars>>

NextCalls == call_validate \/ call_decode \/ call_solve_missing_digit

InitCalls == Constructed(CallInputs)

SpecCalls == InitCalls /\ [][NextCalls]_vars


-----------------------------------------------------------------------------
(* Two threads, each making one call of validate() or                      *)
(* solve_missing_digit(), on the same instance or on two instances built   *)
(* from the same input.  A step is one statement of the method (one        *)
(* iteration for a loop); a label is the method and the line of the        *)
(* statement the thread executes next.  The throwaway validator of a       *)
(* trial of solve_missing_digit is local to the thread, so a trial (lines  *)
(* 101-103) is one step.                                                    *)

ThreadInputs ==
  UNION {{[b EXCEPT ![p] = c] : p \in {1, UPC_LEN}, c \in Specials}
           \cup {b, Resize(b, UPC_LEN - 1)} : b \in Bases}

Entry(m) == IF m = "validate" THEN "validate:43" ELSE "solve:87"

InitThreads ==
  /\ raw \in ThreadInputs
  /\ self = UPCValidator(raw)
  /\ op = "__init__"
  /\ ret = RetNone
  /\ trials = 0
  /\ log = <<>>
  /\ objs = [k \in Threads |-> UPCValidator(raw)]
  /\ target \in {[t \in Threads |-> 1], [t \in Threads |-> t]}
  /\ meth \in [Threads -> {"validate", "solve_missing_digit"}]
  /\ pc = [t \in Threads |-> Entry(meth[t])]
  /\ loc = [t \in Threads |-> NoLocals]
  /\ result = [t \in Threads |-> RetNone]
  /\ NoTest
  /\ NoScanner

\* self.upc_code as thread t reads it
CodeOf(t) == objs[target[t]].upc_code

\* mutant of TotalOwner: total is kept in one place shared by the threads
TotalOwner_Shared(t) == 1

\* whose local variables hold total: it is a local variable of the call
TotalOwner(t) == t

Goto(t, label) == pc' = [pc EXCEPT ![t] = label]

Return(t, v) == result' = [result EXCEPT ![t] = v] /\ Goto(t, "done")

\* a statement changes none of these
Frame == UNCHANGED <<callVars, target, meth, testVars, scanVars>>

\* if len(self.upc_code) != 12:
v_len(t) ==
  /\ pc[t] = "validate:43"
  /\ Frame
  /\ Goto(t, IF WrongLength(CodeOf(t)) THEN "validate:44" ELSE "validate:48")
  /\ UNCHANGED <<objs, loc, result>>

\* self.error_message = f"UPC must be exactly 12 digits (got ...)"
v_len_error(t) ==
  /\ pc[t] = "validate:44"
  /\ Frame
  /\ objs' = [objs EXCEPT ![target[t]].error_message = LengthError(Len(CodeOf(t)))]
  /\ Goto(t, "validate:45")
  /\ UNCHANGED <<loc, result>>

\* return False
v_return_false(t) ==
  /\ pc[t] \in {"validate:45", "validate:50", "validate:65"}
  /\ Frame
  /\ Return(t, RetBool(FALSE))
  /\ UNCHANGED <<objs, loc>>

\* if not self.upc_code.isdigit():
v_isdigit(t) ==
  /\ pc[t] = "validate:48"
  /\ Frame
  /\ Goto(t, IF ~StrIsDigit(CodeOf(t)) THEN "validate:49" ELSE "validate:53")
  /\ UNCHANGED <<objs, loc, result>>

\* self.error_message = "UPC must contain only digits"
v_char_error(t) ==
  /\ pc[t] = "validate:49"
  /\ Frame
  /\ objs' = [objs EXCEPT ![target[t]].error_message = CharError]
  /\ Goto(t, "validate:50")
  /\ UNCHANGED <<loc, result>>

\* total = 0
v_total(t) ==
  /\ pc[t] = "validate:53"
  /\ Frame
  /\ loc' = [loc EXCEPT ![TotalOwner(t)].total = 0, ![t].i = 0]
  /\ Goto(t, "validate:54")
  /\ UNCHANGED <<objs, result>>

\* one iteration of "for i, digit in enumerate(self.upc_code)"
v_loop(t) ==
  /\ pc[t] = "validate:54"
  /\ Frame
  /\ LET i == loc[t].i
         code == CodeOf(t)
     IN IF i >= Len(code)
          THEN Goto(t, "validate:63") /\ UNCHANGED <<loc, result>>
        ELSE IF ~HasIntValue(code[i + 1])
          THEN Return(t, RetRaise) /\ UNCHANGED loc
        ELSE /\ loc' = [loc EXCEPT
                          ![TotalOwner(t)].total = @ + IntOf(code[i + 1]) * Weight(i),
                          ![t].i = i + 1]
             /\ UNCHANGED <<pc, result>>
  /\ UNCHANGED objs

\* if total % 10 != 0:
v_mod(t) ==
  /\ pc[t] = "validate:63"
  /\ Frame
  /\ Goto(t, IF loc[TotalOwner(t)].total % 10 /= 0 THEN "validate:64" ELSE "validate:68")
  /\ UNCHANGED <<objs, loc, result>>

\* self.error_message = f"Invalid check digit (sum = {total}, ...)"
v_checksum_error(t) ==
  /\ pc[t] = "validate:64"
  /\ Frame
  /\ objs' = [objs EXCEPT
                ![target[t]].error_message = ChecksumError(loc[TotalOwner(t)].total)]
  /\ Goto(t, "validate:65")
  /\ UNCHANGED <<loc, result>>

\* self.is_valid = True
v_set_valid(t) ==
  /\ pc[t] = "validate:68"
  /\ Frame
  /\ objs' = [objs EXCEPT ![target[t]].is_valid = TRUE]
  /\ Goto(t, "validate:69")
  /\ UNCHANGED <<loc, result>>

\* self.decode()
v_call_decode(t) ==
  /\ pc[t] = "validate:69"
  /\ Frame
  /\ Goto(t, "decode:74")
  /\ UNCHANGED <<objs, loc, result>>

\* if len(self.upc_code) == 12:
d_len(t) ==
  /\ pc[t] = "decode:74"
  /\ Frame
  /\ Goto(t, IF Len(CodeOf(t)) = UPC_LEN THEN "decode:75" ELSE "validate:70")
  /\ UNCHANGED <<objs, loc, result>>

\* first_digit = self.upc_code[0]
d_first_digit(t) ==
  /\ pc[t] = "decode:75"
  /\ Frame
  /\ loc' = [loc EXCEPT ![t].first_digit = CodeOf(t)[1]]
  /\ Goto(t, "decode:76")
  /\ UNCHANGED <<objs, result>>

\* self.product_type = self.PRODUCT_TYPES.get(first_digit, 'Unknown')
d_product_type(t) ==
  /\ pc[t] = "decode:76"
  /\ Frame
  /\ objs' = [objs EXCEPT
                ![target[t]].product_type =
                   IF loc[t].first_digit \in DOMAIN PRODUCT_TYPES
                     THEN PRODUCT_TYPES[loc[t].first_digit] ELSE "Unknown"]
  /\ Goto(t, "decode:77")
  /\ UNCHANGED <<loc, result>>

\* self.manufacturer_code = self.upc_code[1:6]
d_manufacturer_code(t) ==
  /\ pc[t] = "decode:77"
  /\ Frame
  /\ objs' = [objs EXCEPT ![target[t]].manufacturer_code = Slice(CodeOf(t), 1, 6)]
  /\ Goto(t, "decode:78")
  /\ UNCHANGED <<loc, result>>

\* self.product_code = self.upc_code[6:11]
d_product_code(t) ==
  /\ pc[t] = "decode:78"
  /\ Frame
  /\ objs' = [objs EXCEPT ![target[t]].product_code = Slice(CodeOf(t), 6, 11)]
  /\ Goto(t, "decode:79")
  /\ UNCHANGED <<loc, result>>

\* self.check_digit = self.upc_code[11]
d_check_digit(t) ==
  /\ pc[t] = "decode:79"
  /\ Frame
  /\ objs' = [objs EXCEPT ![target[t]].check_digit = Slice(CodeOf(t), 11, 12)]
  /\ Goto(t, "validate:70")
  /\ UNCHANGED <<loc, result>>

\* return True
v_return_true(t) ==
  /\ pc[t] = "validate:70"
  /\ Frame
  /\ Return(t, RetBool(TRUE))
  /\ UNCHANGED <<objs, loc>>

\* missing_count = self.upc_code.count('?') + self.upc_code.count('_')
s_count(t) ==
  /\ pc[t] = "solve:87"
  /\ Frame
  /\ loc' = [loc EXCEPT ![t].missing_count = MissingCount(CodeOf(t))]
  /\ Goto(t, "solve:89")
  /\ UNCHANGED <<objs, result>>

\* if missing_count != 1:
s_check(t) ==
  /\ pc[t] = "solve:89"
  /\ Frame
  /\ Goto(t, IF loc[t].missing_count /= 1 THEN "solve:90" ELSE "solve:93")
  /\ UNCHANGED <<objs, loc, result>>

\* return None
s_return_none(t) ==
  /\ pc[t] \in {"solve:90", "solve:106"}
  /\ Frame
  /\ Return(t, RetNone)
  /\ UNCHANGED <<objs, loc>>

\* missing_pos = -1 and the loop that finds the placeholder
s_find(t) ==
  /\ pc[t] = "solve:93"
  /\ Frame
  /\ loc' = [loc EXCEPT ![t].missing_pos = MissingPos(CodeOf(t)), ![t].digit = 0]
  /\ Goto(t, "solve:100")
  /\ UNCHANGED <<objs, result>>

\* one iteration of "for digit in range(10)": the trial of one digit
s_try(t) ==
  /\ pc[t] = "solve:100"
  /\ Frame
  /\ LET digit == loc[t].digit
         test_upc == TestUpc(CodeOf(t), loc[t].missing_pos, digit)
         r == Validate(UPCValidator(test_upc)).ret
     IN IF digit >= 10
          THEN Goto(t, "solve:106") /\ UNCHANGED <<loc, result>>
        ELSE IF r = RetRaise
          THEN Return(t, RetRaise) /\ UNCHANGED loc
        ELSE IF r.b
          THEN /\ loc' = [loc EXCEPT ![t].test_upc = test_upc]
               /\ Goto(t, "solve:104")
               /\ UNCHANGED result
        ELSE /\ loc' = [loc EXCEPT ![t].digit = digit + 1]
             /\ UNCHANGED <<pc, result>>
  /\ objs' = [objs EXCEPT ![target[t]] = SelfAfterTrials(@)]

\* return test_upc
s_return_solved(t) ==
  /\ pc[t] = "solve:104"
  /\ Frame
  /\ Return(t, RetStr(loc[t].test_upc))
  /\ UNCHANGED <<objs, loc>>

\* one statement of one thread
Step(t) ==
  \/ v_len(t) \/ v_len_error(t) \/ v_return_false(t) \/ v_isdigit(t)
  \/ v_char_error(t) \/ v_total(t) \/ v_loop(t) \/ v_mod(t)
  \/ v_checksum_error(t) \/ v_set_valid(t) \/ v_call_decode(t)
  \/ d_len(t) \/ d_first_digit(t) \/ d_product_type(t)
  \/ d_manufacturer_code(t) \/ d_product_code(t) \/ d_check_digit(t)
  \/ v_return_true(t)
  \/ s_count(t) \/ s_check(t) \/ s_return_none(t) \/ s_find(t) \/ s_try(t)
  \/ s_return_solved(t)

NextThreads == \E t \in Threads : Step(t)

SpecThreads == InitThreads /\ [][NextThreads]_vars

\* ---------------------------------------------------------------------------
\* test_product_type_detection, one validator built and validated per step
\* ---------------------------------------------------------------------------

\* base_upc = f"{first_digit}12345678"
BaseUpc(d) == <<DigitChar(d)>> \o Code(<<1, 2, 3, 4, 5, 6, 7, 8>>)

\* the test's own sum over base_upc: position i (from 0) weighs 3 when i is even
RECURSIVE BaseTotal(_, _)
BaseTotal(base_upc, n) ==
  IF n = 0 THEN 0
  ELSE BaseTotal(base_upc, n - 1)
         + (IF (n - 1) % 2 = 0 THEN IntOf(base_upc[n]) * 3 ELSE IntOf(base_upc[n]))

\* check_digit = (10 - (test_total % 10)) % 10
TestCheckDigit(test_total) == (10 - (test_total % 10)) % 10

\* complete_upc = base_upc + str(eleventh) + str(check_digit)
CompleteUpc(d, e) ==
  LET base_upc == BaseUpc(d)
      test_total == BaseTotal(base_upc, Len(base_upc)) + e
  IN base_upc \o <<DigitChar(e)>> \o <<DigitChar(TestCheckDigit(test_total))>>

InitTest ==
  /\ raw = <<>>
  /\ self = UPCValidator(raw)
  /\ op = "__init__"
  /\ ret = RetNone
  /\ trials = 0
  /\ log = <<>>
  /\ NoThreads
  /\ test_first_digit = 0
  /\ eleventh = 0
  /\ printed = <<>>
  /\ tpc = "test:125"
  /\ NoScanner

\* test_total, check_digit, complete_upc and validator = UPCValidator(complete_upc)
t_construct ==
  /\ tpc = "test:125"
  /\ raw' = CompleteUpc(test_first_digit, eleventh)
  /\ self' = UPCValidator(raw')
  /\ op' = "__init__"
  /\ ret' = RetNone
  /\ tpc' = "test:130"
  /\ UNCHANGED <<trials, log, threadVars, scanVars, test_first_digit, eleventh, printed>>

\* if validator.validate(): print and break; then the next eleventh digit, or
\* the next first digit, or the end of the test
t_validate ==
  /\ tpc = "test:130"
  /\ DoValidate
  /\ printed' = IF ret' = RetBool(TRUE)
                THEN Append(printed, [first_digit |-> test_first_digit,
                                      product_type |-> self'.product_type,
                                      complete_upc |-> raw])
                ELSE printed
  /\ IF ret' /= RetBool(TRUE) /\ eleventh < 9
     THEN /\ eleventh' = eleventh + 1
          /\ test_first_digit' = test_first_digit
          /\ tpc' = "test:125"
     ELSE IF test_first_digit < 9
     THEN /\ test_first_digit' = test_first_digit + 1
          /\ eleventh' = 0
          /\ tpc' = "test:125"
     ELSE /\ tpc' = "done"
          /\ UNCHANGED <<test_first_digit, eleventh>>
  /\ UNCHANGED <<log, threadVars, scanVars>>

NextTest == t_construct \/ t_validate

SpecTest == InitTest /\ [][NextTest]_vars

\* ---------------------------------------------------------------------------
\* BarcodeScanner: start() and stop() called from the user interface, and the
\* scan threads, one statement per step.  What the camera, the decoder and
\* the keyboard deliver is chosen freely.
\* ---------------------------------------------------------------------------

InitScanner ==
  /\ raw = <<>>
  /\ self = UPCValidator(raw)
  /\ op = "__init__"
  /\ ret = RetNone
  /\ trials = 0
  /\ log = <<>>
  /\ NoThreads
  /\ NoTest
  /\ NewScanner
  /\ available \in BOOLEAN

\* a statement of the scanner changes nothing of the validator
ScanFrame == UNCHANGED <<callVars, threadVars, testVars, available>>

ScanGoto(k, label) == scan_pc' = [scan_pc EXCEPT ![k] = label]

\* self.cap.release() on whatever self.cap refers to
Released == [captures EXCEPT ![cap] = "released"]

\* start(): False without the libraries or while running, otherwise
\* running = True and a new thread runs _scan_loop
start ==
  /\ ui_pc = "idle"
  /\ ScanFrame
  /\ IF ~available \/ running
       THEN started' = RetBool(FALSE) /\ UNCHANGED <<running, scan_pc>>
       ELSE /\ \E k \in ScanThreads :
                 /\ scan_pc[k] = "new"
                 /\ \A j \in 1..(k - 1) : scan_pc[j] /= "new"
                 /\ ScanGoto(k, "scan:157")
            /\ running' = TRUE
            /\ started' = RetBool(TRUE)
  /\ UNCHANGED <<cap, captures, ui_pc, callbacks>>

\* stop(), called from the user interface: self.running = False
stop_running ==
  /\ ui_pc = "idle"
  /\ ScanFrame
  /\ running' = FALSE
  /\ ui_pc' = "stop:149"
  /\ UNCHANGED <<cap, captures, scan_pc, started, callbacks>>

\* stop(): if self.cap: self.cap.release(); self.cap = None
stop_release ==
  /\ ui_pc = "stop:149"
  /\ ScanFrame
  /\ captures' = IF cap /= 0 THEN Released ELSE captures
  /\ cap' = 0
  /\ ui_pc' = "idle"
  /\ UNCHANGED <<running, scan_pc, started, callbacks>>

\* a statement of a scan thread leaves these alone
ThreadFrame == ScanFrame /\ UNCHANGED <<ui_pc, started>>

\* self.cap = cv2.VideoCapture(0): a new capture object, opened or not
sc_open(k) ==
  /\ scan_pc[k] = "scan:157"
  /\ ThreadFrame
  /\ \E o \in {"opened", "unopened"} : captures' = [captures EXCEPT ![k] = o]
  /\ cap' = k
  /\ ScanGoto(k, "scan:159")
  /\ UNCHANGED <<running, callbacks>>

\* if not self.cap.isOpened(); on None the attribute access raises
sc_is_opened(k) ==
  /\ scan_pc[k] = "scan:159"
  /\ ThreadFrame
  /\ IF cap = 0 THEN ScanGoto(k, "scan:200")
     ELSE IF captures[cap] /= "opened" THEN ScanGoto(k, "scan:161")
     ELSE ScanGoto(k, "scan:164")
  /\ UNCHANGED <<running, cap, captures, callbacks>>

\* self.callback(None, "Could not open webcam"); return
sc_not_opened(k) ==
  /\ scan_pc[k] = "scan:161"
  /\ ThreadFrame
  /\ callbacks' = [callbacks EXCEPT ![k] = "Could not open webcam"]
  /\ ScanGoto(k, "scan:203")
  /\ UNCHANGED <<running, cap, captures>>

\* while self.running
sc_while(k) ==
  /\ scan_pc[k] = "scan:164"
  /\ ThreadFrame
  /\ IF running THEN ScanGoto(k, "scan:165") ELSE ScanGoto(k, "scan:203")
  /\ UNCHANGED <<running, cap, captures, callbacks>>

\* ret, frame = self.cap.read(); if not ret: break
sc_read(k) ==
  /\ scan_pc[k] = "scan:165"
  /\ ThreadFrame
  /\ IF cap = 0 THEN ScanGoto(k, "scan:200")
     ELSE \E got \in (IF captures[cap] = "opened" THEN BOOLEAN ELSE {FALSE}) :
            IF got THEN ScanGoto(k, "scan:170") ELSE ScanGoto(k, "scan:203")
  /\ UNCHANGED <<running, cap, captures, callbacks>>

\* barcodes = pyzbar.decode(frame) and the loop over them: a UPC-A/EAN-13
\* code of 12 or more characters is found, or none is, or decoding raises
sc_decode(k) ==
  /\ scan_pc[k] = "scan:170"
  /\ ThreadFrame
  /\ \E found \in {"upc", "none", "raise"} :
       CASE found = "upc" -> ScanGoto(k, "scan:182")
         [] found = "none" -> ScanGoto(k, "scan:193")
         [] found = "raise" -> ScanGoto(k, "scan:200")
  /\ UNCHANGED <<running, cap, captures, callbacks>>

\* self.callback(upc, None)
sc_callback(k) ==
  /\ scan_pc[k] = "scan:182"
  /\ ThreadFrame
  /\ callbacks' = [callbacks EXCEPT ![k] = "upc"]
  /\ ScanGoto(k, "scan:183")
  /\ UNCHANGED <<running, cap, captures>>

\* self.stop(), called from the scan thread: self.running = False
sc_stop_running(k) ==
  /\ scan_pc[k] = "scan:183"
  /\ ThreadFrame
  /\ running' = FALSE
  /\ ScanGoto(k, "scan:183/stop:149")
  /\ UNCHANGED <<cap, captures, callbacks>>

\* the rest of self.stop(): release and forget the capture; then return
sc_stop_release(k) ==
  /\ scan_pc[k] = "scan:183/stop:149"
  /\ ThreadFrame
  /\ captures' = IF cap /= 0 THEN Released ELSE captures
  /\ cap' = 0
  /\ ScanGoto(k, "scan:203")
  /\ UNCHANGED <<running, callbacks>>

\* cv2.imshow(...); if cv2.waitKey(1) & 0xFF == 27: break
sc_key(k) ==
  /\ scan_pc[k] = "scan:193"
  /\ ThreadFrame
  /\ \E esc \in BOOLEAN :
       IF esc THEN ScanGoto(k, "scan:203") ELSE ScanGoto(k, "scan:164")
  /\ UNCHANGED <<running, cap, captures, callbacks>>

\* except Exception as e: self.callback(None, f"Scanner error: {e}")
sc_except(k) ==
  /\ scan_pc[k] = "scan:200"
  /\ ThreadFrame
  /\ callbacks' = [callbacks EXCEPT ![k] = "Scanner error"]
  /\ ScanGoto(k, "scan:203")
  /\ UNCHANGED <<running, cap, captures>>

\* finally: if self.cap: self.cap.release(); the thread ends
sc_finally(k) ==
  /\ scan_pc[k] = "scan:203"
  /\ ThreadFrame
  /\ captures' = IF cap /= 0 THEN Released ELSE captures
  /\ ScanGoto(k, "done")
  /\ UNCHANGED <<running, cap, callbacks>>

scan_loop(k) ==
  \/ sc_open(k) \/ sc_is_opened(k) \/ sc_not_opened(k)
  \/ sc_while(k) \/ sc_read(k) \/ sc_decode(k)
  \/ sc_callback(k) \/ sc_stop_running(k) \/ sc_stop_release(k)
  \/ sc_key(k) \/ sc_except(k) \/ sc_finally(k)

NextScanner ==
  \/ start
  \/ stop_running
  \/ stop_release
  \/ \E k \in ScanThreads : scan_loop(k)

SpecScanner == InitScanner /\ [][NextScanner]_vars


-----------------------------------------------------------------------------
(* Vocabulary of the properties: what the specification calls a decimal    *)
(* digit, its value, and the checksum of a 12-digit string, written out    *)
(* independently of the code.                                              *)

IsDecimalDigit(c) == c \in {"0", "1", "2", "3", "4", "5", "6", "7", "8", "9"}

AllDecimalDigits(s) == \A i \in 1..Len(s) : IsDecimalDigit(s[i])

DigitValue(c) == CHOOSE n \in 0..9 : DigitChar(n) = c

\* the digit value at 0-indexed position i
D(s, i) == DigitValue(s[i + 1])

WeightedSum(s) ==
  3 * (D(s, 0) + D(s, 2) + D(s, 4) + D(s, 6) + D(s, 8) + D(s, 10))
    + (D(s, 1) + D(s, 3) + D(s, 5) + D(s, 7) + D(s, 9) + D(s, 11))

\* the 1-indexed positions of the placeholders of s
Holes(s) == {i \in 1..Len(s) : s[i] = "?" \/ s[i] = "_"}

\* s with the character at 1-indexed position i replaced by the digit d
Fill(s, i, d) == [s EXCEPT ![i] = DigitChar(d)]

\* UPCValidator(s).validate() returns True
Passes(s) == Validate(UPCValidator(s)).ret = RetBool(TRUE)

True == RetBool(TRUE)
False == RetBool(FALSE)

LengthReason == LengthError(0).reason
CharReason == CharError.reason
ChecksumReason == ChecksumError(0).reason

-----------------------------------------------------------------------------
C3_CharReason ==
  (op = "validate" /\ Len(raw) = 12 /\ ~AllDecimalDigits(raw))
    => (ret = False /\ self.error_message = CharError)

\* C4: the error validate() reports is that of the first failing check, in the
\* order length, character class, checksum, of the code it checks.
C4_FirstFailingCheck ==
  op = "validate" =>
    LET code == self.upc_code IN
    /\ Len(code) /= 12 => (ret = False /\ self.error_message.reason = LengthReason)
    /\ (Len(code) = 12 /\ ~AllDecimalDigits(code))
         => (ret = False /\ self.error_message.reason = CharReason)
    /\ (Len(code) = 12 /\ AllDecimalDigits(code) /\ WeightedSum(code) % 10 /= 0)
         => (ret = False /\ self.error_message.reason = ChecksumReason)

\* C5: whenever validate() returns True, the validated code has length exactly
\* 12 and every character is a decimal digit '0'-'9'.
C5_AcceptedIsTwelveDigits ==
  (op = "validate" /\ ret = True)
    => (Len(self.upc_code) = 12 /\ AllDecimalDigits(self.upc_code))

\* C6: no operation raises: validate() returns True or False and
\* solve_missing_digit() returns a string or None, for every input.
C6_NeverRaises ==
  /\ op = "validate" => ret \in {True, False}
  /\ op = "solve_missing_digit" => ret.tag \in {"str", "None"}

\* C7: for a 12-character input with one placeholder and 11 decimal digits,
\* exactly one digit makes the filled string pass validate, and
\* solve_missing_digit() returns exactly that filled string.
C7_UniqueSolution ==
  (/\ op = "solve_missing_digit"
   /\ Len(raw) = 12
   /\ Cardinality(Holes(raw)) = 1
   /\ \A i \in (1..12) \ Holes(raw) : IsDecimalDigit(raw[i]))
    => \A i \in Holes(raw) :
         /\ Cardinality({d \in 0..9 : Passes(Fill(raw, i, d))}) = 1
         /\ \E d \in 0..9 : Passes(Fill(raw, i, d)) /\ ret = RetStr(Fill(raw, i, d))

\* "0780000824_7" (a weight-3 position) is solved to "078000082487"
C7_Witness ==
  /\ op = "solve_missing_digit"
  /\ raw = [BaseList[3] EXCEPT ![11] = "_"]
  /\ ret = RetStr(BaseList[3])

\* C8: solve_missing_digit() returns None, without running any validation,
\* whenever the number of placeholders ('?' and '_' together) is not exactly 1.
C8_NotOnePlaceholder ==
  (op = "solve_missing_digit" /\ Cardinality(Holes(raw)) /= 1)
    => (ret = RetNone /\ trials = 0)

\* one '?' and one '_' in the same code
C8_Witness ==
  /\ op = "solve_missing_digit"
  /\ raw = [BaseList[1] EXCEPT ![3] = "?", ![12] = "_"]
  /\ ret = RetNone
  /\ trials = 0

\* C9: every string solve_missing_digit() returns has length 12, consists of
\* decimal digits only, passes validate, and differs from the input only at
\* the placeholder position.
C9_ResolvedResult ==
  (op = "solve_missing_digit" /\ ret.tag = "str")
    => /\ Len(ret.s) = 12
       /\ AllDecimalDigits(ret.s)
       /\ Passes(ret.s)
       /\ Len(raw) = Len(ret.s)
       /\ Cardinality(Holes(raw)) = 1
       /\ \A i \in 1..Len(raw) : i \notin Holes(raw) => ret.s[i] = raw[i]

\* C10: for a 12-character input with exactly one placeholder,
\* solve_missing_digit() returns None if and only if one of the other 11
\* characters is not a decimal digit.
C10_NoneIffMalformed ==
  (op = "solve_missing_digit" /\ Len(raw) = 12 /\ Cardinality(Holes(raw)) = 1)
    => (ret = RetNone <=> \E i \in (1..12) \ Holes(raw) : ~IsDecimalDigit(raw[i]))

-----------------------------------------------------------------------------
\* the four decoded fields of the instance are populated
Populated ==
  /\ self.product_type /= ""
  /\ self.manufacturer_code /= <<>>
  /\ self.product_code /= <<>>
  /\ self.check_digit /= <<>>

\* one of the decoded fields of the instance is populated
SomePopulated ==
  \/ self.product_type /= ""
  \/ self.manufacturer_code /= <<>>
  \/ self.product_code /= <<>>
  \/ self.check_digit /= <<>>

\* the labels of the fixed table
Labels == {PRODUCT_TYPES[c] : c \in DOMAIN PRODUCT_TYPES}

\* the numeric value of a character int() accepts: U+0663 is the digit three
NumericValue(c) == IF c = "A3" THEN 3 ELSE DigitValue(c)

\* 3 * (values at even 0-indexed positions) + (values at odd positions) of s
NumericTotal(s) ==
  LET V(i) == NumericValue(s[i + 1])
  IN 3 * (V(0) + V(2) + V(4) + V(6) + V(8) + V(10))
       + (V(1) + V(3) + V(5) + V(7) + V(9) + V(11))

\* the weighted total T of the first 11 digits of s
PrefixTotal(s) ==
  3 * (D(s, 0) + D(s, 2) + D(s, 4) + D(s, 6) + D(s, 8) + D(s, 10))
    + (D(s, 1) + D(s, 3) + D(s, 5) + D(s, 7) + D(s, 9))

\* C11: for every code s accepted by validate, product_type is the table label
\* of s[0] (never 'Unknown'), manufacturer_code is the 5 digits s[1..5],
\* product_code the 5 digits s[6..10], check_digit is s[11], and s[0] with the
\* fields reassembles s.
C11_DecodedFields ==
  (op = "validate" /\ ret = True) =>
    LET s == self.upc_code IN
    /\ IsDecimalDigit(s[1])
    /\ self.product_type = PRODUCT_TYPES[s[1]]
    /\ self.product_type \in Labels
    /\ self.product_type /= "Unknown"
    /\ self.manufacturer_code = <<s[2], s[3], s[4], s[5], s[6]>>
    /\ AllDecimalDigits(self.manufacturer_code)
    /\ self.product_code = <<s[7], s[8], s[9], s[10], s[11]>>
    /\ AllDecimalDigits(self.product_code)
    /\ self.check_digit = <<s[12]>>
    /\ <<s[1]>> \o self.manufacturer_code \o self.product_code \o self.check_digit = s

\* C12: after validate() returns, whatever calls preceded it, either it
\* returned True, is_valid is True, error_message is empty and the four fields
\* are populated, or it returned False, is_valid is False and error_message is
\* a non-empty reason.
C12_Discriminated ==
  (op = "validate" /\ ret.tag = "bool") =>
    \/ ret = True /\ self.is_valid /\ self.error_message = NoError /\ Populated
    \/ ret = False /\ ~self.is_valid /\ self.error_message.reason /= ""

\* validate() has returned False for "03600029145?" after an earlier
\* solve_missing_digit() ran its trial validators
C12_Witness ==
  /\ op = "validate"
  /\ raw = [BaseList[1] EXCEPT ![12] = "?"]
  /\ trials > 0
  /\ ret = False
  /\ ~self.is_valid
  /\ self.error_message = CharError

\* C13: in every reachable state, populated decoded fields imply that the
\* code of the instance has length 12, is all digits and satisfies the
\* checksum.
C13_FieldsOnlyFromValidated ==
  SomePopulated =>
    /\ Len(self.upc_code) = 12
    /\ AllDecimalDigits(self.upc_code)
    /\ WeightedSum(self.upc_code) % 10 = 0

\* C14: for every 11-digit prefix p with weighted total T, the digit
\* c = (10 - (T mod 10)) mod 10 is in 0..9 and p followed by c passes
\* validate; when T mod 10 = 0 the check digit is 0.
C14_CheckDigitFormula ==
  (/\ op = "validate"
   /\ Len(raw) = 12
   /\ AllDecimalDigits(raw)
   /\ D(raw, 11) = (10 - (PrefixTotal(raw) % 10)) % 10)
    => /\ (10 - (PrefixTotal(raw) % 10)) % 10 \in 0..9
       /\ PrefixTotal(raw) % 10 = 0 => D(raw, 11) = 0
       /\ ret = True

\* "000000000000" (T = 0, check digit 0) is accepted
C14_Witness ==
  /\ op = "validate"
  /\ raw = BaseList[4]
  /\ PrefixTotal(raw) % 10 = 0
  /\ ret = True

\* C17: the product-type lookup by the first character gives the table label
\* for each digit '0'-'9', "Unknown" only for a digit missing from the table,
\* and the empty marker for a non-digit or absent first character.
C17_LookupByCharacter ==
  LET code == self.upc_code
      absent == code = <<>>
  IN /\ (op = "decode" /\ Len(code) = 12 /\ IsDecimalDigit(code[1]))
          => self.product_type = PRODUCT_TYPES[code[1]]
     /\ self.product_type = "Unknown"
          => (~absent /\ IsDecimalDigit(code[1]) /\ code[1] \notin DOMAIN PRODUCT_TYPES)
     /\ (op = "decode" /\ (absent \/ ~IsDecimalDigit(code[1])))
          => self.product_type = ""

\* C18: on a length failure the number in the message is the length of the
\* code that was checked; on a checksum failure the reported sum is the
\* weighted total of that code, which is not divisible by 10.
C18_OffendingValue ==
  (op = "validate" /\ ret = False) =>
    LET code == self.upc_code
        msg == self.error_message
    IN /\ msg.reason \in {LengthReason, CharReason, ChecksumReason}
       /\ msg.reason = LengthReason => (msg.value = Len(code) /\ msg.value /= 12)
       /\ msg.reason = ChecksumReason
            => (msg.value = NumericTotal(code) /\ msg.value % 10 /= 0)

\* the 11-digit code of the tests reports 11, "123456789013" reports 101
C18_Witness ==
  /\ op = "validate"
  /\ ret = False
  /\ raw = BaseList[2]
  /\ self.error_message = ChecksumError(101)

\* C15: calling validate() (or decode()) a second time on the same instance
\* returns what the first call returned and leaves is_valid, error_message
\* and the decoded fields as the first call left them.
C15_Idempotent ==
  \A i \in 1..(Len(log) - 1) :
    (log[i].op = log[i + 1].op /\ log[i].op \in {"validate", "decode"})
      => (log[i + 1].ret = log[i].ret /\ log[i + 1].self = log[i].self)

\* on "036000291452": validate() twice, both True, then decode() again, and
\* the instance is as the first call left it
C15_Witness ==
  /\ raw = BaseList[1]
  /\ Len(log) = 3
  /\ log[1].op = "validate" /\ log[2].op = "validate" /\ log[3].op = "decode"
  /\ log[1].ret = True /\ log[2].ret = True
  /\ log[1].self.check_digit = <<"2">>
  /\ self = log[1].self

\* every thread has returned (or raised)
AllDone == \A t \in Threads : pc[t] = "done"

\* the call of method m made on the instance inst in one piece
Call(m, inst) ==
  IF m = "validate" THEN Validate(inst)
  ELSE [inst |-> inst, ret |-> SolveMissingDigit(inst).ret]

\* the calls of thread a and then of thread b, one after the other, on fresh
\* instances: the instances at the end and what each call returned
OneAfterAnother(a, b) ==
  LET o0 == [k \in Threads |-> UPCValidator(raw)]
      ca == Call(meth[a], o0[target[a]])
      o1 == [o0 EXCEPT ![target[a]] = ca.inst]
      cb == Call(meth[b], o1[target[b]])
      o2 == [o1 EXCEPT ![target[b]] = cb.inst]
  IN [objs |-> o2, result |-> [t \in Threads |-> IF t = a THEN ca.ret ELSE cb.ret]]

\* C16: for any interleaving of the statements of two concurrent validate()
\* and solve_missing_digit() calls, on one instance or on two, every call
\* returns the same value and the final instance state is the same as when
\* the calls run one after another.
C16_InterleavingsAgree ==
  AllDone =>
    \A a \in Threads : \A b \in Threads \ {a} :
      /\ objs = OneAfterAnother(a, b).objs
      /\ result = OneAfterAnother(a, b).result

\* two validate() calls on the one instance of "036000291452" have both
\* returned True
C16_Witness ==
  /\ AllDone
  /\ raw = BaseList[1]
  /\ target = [t \in Threads |-> 1]
  /\ meth = [t \in Threads |-> "validate"]
  /\ result = [t \in Threads |-> True]
  /\ objs[1].is_valid
  /\ objs[1].check_digit = <<"2">>

\* C19: at every point during the execution of validate(), whenever is_valid
\* is True the four decoded fields are already populated.
C19_NoPartialResult ==
  \A k \in Threads :
    objs[k].is_valid =>
      /\ objs[k].product_type /= ""
      /\ objs[k].manufacturer_code /= <<>>
      /\ objs[k].product_code /= <<>>
      /\ objs[k].check_digit /= <<>>

\* C20: for every first digit d in 0..9 the test's assembled code is accepted
\* for at least one eleventh digit and the accepted code's product_type is
\* PRODUCT_TYPES[d]: when the test has finished it has printed every category.
C20_AllCategoriesExercised ==
  tpc = "done" =>
    \A d \in 0..9 :
      \E i \in 1..Len(printed) :
        /\ printed[i].first_digit = d
        /\ printed[i].product_type = PRODUCT_TYPES[DigitChar(d)]

\* C21: solve_missing_digit is side-effect-free on the instance it is called
\* on: whatever it returns, upc_code, is_valid, error_message and the four
\* decoded fields of the instance are the same after the call as before it.
C21_SolveLeavesInstance ==
  [][op' = "solve_missing_digit" => self' = self]_vars

\* solve_missing_digit() on "03600029145?" has returned "036000291452" and
\* the instance is as constructed
C21_Witness ==
  /\ raw = [BaseList[1] EXCEPT ![12] = "?"]
  /\ op = "solve_missing_digit"
  /\ ret = RetStr(BaseList[1])
  /\ self = UPCValidator(raw)
  /\ ~self.is_valid

\* s without its leading and trailing whitespace: from its first character
\* that is not whitespace to its last
Trimmed(s) ==
  LET inked == {i \in 1..Len(s) : s[i] /= " "}
  IN IF inked = {} THEN <<>>
     ELSE SubSeq(s, CHOOSE i \in inked : \A j \in inked : i <= j,
                    CHOOSE i \in inked : \A j \in inked : j <= i)

\* C22: the validator checks the whitespace-stripped form of its input:
\* UPCValidator(s) and UPCValidator(strip(s)) give identical validate()
\* results, error messages, decoded fields and solve_missing_digit() results,
\* and the length reported on failure is the stripped length.
C22_StrippedForm ==
  LET given == UPCValidator(raw)
      stripped == UPCValidator(Trimmed(raw))
  IN /\ Validate(given) = Validate(stripped)
     /\ Decode(given) = Decode(stripped)
     /\ SolveMissingDigit(given).ret = SolveMissingDigit(stripped).ret
     /\ op = "validate" =>
          /\ ret = Validate(stripped).ret
          /\ self.error_message = Validate(stripped).inst.error_message
          /\ Len(Trimmed(raw)) /= UPC_LEN =>
               self.error_message = LengthError(Len(Trimmed(raw)))
     /\ op = "solve_missing_digit" => ret = SolveMissingDigit(stripped).ret

\* validate() has accepted " 036000291452 " and decoded the stripped code
C22_Witness ==
  /\ raw = Spaces(1) \o BaseList[1] \o Spaces(1)
  /\ op = "validate"
  /\ ret = True
  /\ self.upc_code = BaseList[1]
  /\ self.check_digit = <<"2">>

\* the weighted sum of the numeric values of twelve digits is a multiple of 10
SatisfiesChecksum(s) ==
  /\ Len(s) = UPC_LEN
  /\ \A i \in 1..Len(s) : s[i] \in AsciiDigits \cup {"A3"}
  /\ NumericTotal(s) % 10 = 0

\* C23: after any sequence of validate(), decode() and solve_missing_digit()
\* calls on one instance, is_valid is True if and only if some earlier
\* validate() call returned True; is_valid never goes from True back to
\* False; and is_valid implies that error_message is empty and that upc_code
\* satisfies the checksum.
C23_ValidFlag ==
  /\ self.is_valid <=>
       \E i \in 1..Len(log) : log[i].op = "validate" /\ log[i].ret = True
  /\ \A i \in 1..Len(log) : \A j \in i..Len(log) :
       log[i].self.is_valid => log[j].self.is_valid
  /\ self.is_valid =>
       /\ self.error_message = NoError
       /\ SatisfiesChecksum(self.upc_code)

\* "078000082487" was validated, then solved and decoded, and is still valid
C23_Witness ==
  /\ raw = BaseList[3]
  /\ Len(log) = 3
  /\ log[1].op = "validate" /\ log[1].ret = True
  /\ log[2].op = "solve_missing_digit"
  /\ log[3].op = "decode"
  /\ self = log[3].self
  /\ self.is_valid

\* the scan threads that start() has launched, and those still in _scan_loop
Launched == {k \in ScanThreads : scan_pc[k] /= "new"}
Alive == {k \in Launched : scan_pc[k] /= "done"}

\* every launched _scan_loop has exited: the flag is down, no capture is open
ExitedMeansStopped ==
  (Launched /= {} /\ Alive = {}) =>
    /\ ~running
    /\ \A k \in ScanThreads : captures[k] /= "opened"

\* while running is True no step launches a thread
NoSecondLaunch == running => (Launched' = Launched)

\* C24: running tracks the scan thread: whenever _scan_loop has exited by any
\* path, running is False and the capture device is released (so a later
\* start() launches a new scan instead of returning False); and while
\* running is True, start() never launches a second thread.
C24_RunningTracksThread == []ExitedMeansStopped /\ [][NoSecondLaunch]_vars

=============================================================================
